---- MODULE Spec2Model ----
(***************************************************************************)
(* Model of the gcp-secrets deploy executor                                *)
(* (packages/gcp-secrets/src/executors/deploy/deploy.impl.ts).             *)
(*                                                                         *)
(* One run of deployExecutor is one behaviour.  The callback handed to     *)
(* files.map is an async function without any await, so every callback     *)
(* runs to its return (or to its throw, which only rejects its promise)    *)
(* before the next one starts; the rejection is seen by the catch block    *)
(* only when Promise.all is awaited.                                       *)
(*                                                                         *)
(* Strings are modelled as sequences of tokens so that split, pop, join    *)
(* and the `${key}=${value}` template are real conversions:                *)
(*   "db.prod.json"  is  <<"db", "prod", "json">>   (split on '.')         *)
(*   "a=1"           is  <<"a", "=", "1">>                                 *)
(***************************************************************************)
EXTENDS Integers, Sequences, FiniteSets, TLC

\* ------------------------------------------------------------------ bounds
MaxFiles == 2
MaxVersion == 2
MaxFaults == 2

\* ------------------------------------------------------- input universes
Undefined == "<undefined>"
Null == "<null>"

\* the values of a metadata field that JavaScript takes as false: undefined,
\* null and the empty string (the two reserved tokens above are not among
\* the strings a definition can hold)
Falsy == { Undefined, Null, "" }

\* options.secret unset (or the empty string): falsy at line 62
NoFilter == <<>>

Absent == [kind |-> "absent"]
Arr(items) == [kind |-> "array", items |-> items]
NotArray == [kind |-> "string"]

Lbl(k, v) == <<k, "=", v>>

AccessorRole == "roles/secretmanager.secretAccessor"
ViewerRole == "roles/secretmanager.viewer"

\* file names as the sequences fileName.split('.') yields
DbJson == <<"db", "json">>
DbYaml == <<"db", "yaml">>
ApiJson == <<"api", "prod", "json">>
FileNames == <<ApiJson, DbJson, DbYaml>>

\* remote secret ids, in the order the listing reports them
DbName == <<"db">>
ApiName == <<"api", "prod">>
RemoteOrder == <<ApiName, DbName>>
RemoteNames == {RemoteOrder[k] : k \in 1..Len(RemoteOrder)}

LabelChoices ==
    { Absent, Arr(<<>>), Arr(<<Lbl("a", "1")>>),
      Arr(<<Lbl("a", "1"), Lbl("b", "2")>>),
      Arr(<<Lbl("b", "2"), Lbl("a", "1")>>) }

\* remote label objects, as the sequence of [key, value] in Object.keys order
RemoteLabelChoices ==
    { <<>>, << [key |-> "a", value |-> "1"] >>,
      << [key |-> "a", value |-> "2"] >>,
      << [key |-> "a", value |-> "1"], [key |-> "b", value |-> "2"] >>,
      << [key |-> "b", value |-> "2"], [key |-> "a", value |-> "1"] >> }

ServiceAccountChoices ==
    { Absent, NotArray, Arr(<<>>), Arr(<<"X", "Y">>), Arr(<<"Y", "X">>),
      Arr(<<"X", "X">>) }

\* remote IAM policies: a sequence of bindings [role, members]
PolicyChoices ==
    { <<>>,
      << [role |-> ViewerRole, members |-> <<"X">>] >>,
      << [role |-> AccessorRole, members |-> <<"Y", "Z">>] >>,
      << [role |-> ViewerRole, members |-> <<"X">>],
         [role |-> AccessorRole, members |-> <<"Z", "Y">>] >>,
      << [role |-> AccessorRole, members |-> <<"X", "Y">>] >> }

BehaviorChoices ==
    { Undefined, Null, "", "none", "disable", "destroy", "archive" }

Definition(status, labels, serviceAccounts, onUpdateBehavior) ==
    [ malformed |-> FALSE, status |-> status, labels |-> labels,
      serviceAccounts |-> serviceAccounts,
      onUpdateBehavior |-> onUpdateBehavior ]

\* a file getFileContent cannot parse into a definition with __gcp_metadata
Malformed ==
    [ malformed |-> TRUE, status |-> "encrypted", labels |-> Absent,
      serviceAccounts |-> Absent, onUpdateBehavior |-> Undefined ]

NoSecret == [exists |-> FALSE, labels |-> <<>>, policy |-> <<>>, latest |-> 0]
Secret(labels, policy, latest) ==
    [exists |-> TRUE, labels |-> labels, policy |-> policy, latest |-> latest]

BaseLabels == Arr(<<Lbl("a", "1")>>)
BaseRemoteLabels == << [key |-> "a", value |-> "1"] >>
BasePolicy == << [role |-> AccessorRole, members |-> <<"Y", "Z">>] >>

\* ------------------------------------------------------------- the inputs
\* A run's input: the listed files, their content on disk, the remote
\* service's state and the executor options.
Input(fs, ds, rem, secret) ==
    [files |-> fs, disk |-> ds, remote |-> rem, secret |-> secret]

OnlyDb(s) == [n \in RemoteNames |-> IF n = DbName THEN s ELSE NoSecret]

\* one file, every declared/remote label combination
LabelInputs ==
    { Input(<<DbJson>>, << Definition(st, l, Absent, Undefined) >>,
            OnlyDb(r), NoFilter) :
        st \in {"encrypted", "decrypted"}, l \in LabelChoices,
        r \in {NoSecret} \cup
              {Secret(rl, <<>>, 1) : rl \in RemoteLabelChoices} }

\* one file, every declared/remote access-binding combination
BindingInputs ==
    { Input(<<DbJson>>, << Definition("encrypted", BaseLabels, sa, "none") >>,
            OnlyDb(r), NoFilter) :
        sa \in ServiceAccountChoices,
        r \in {NoSecret} \cup
              {Secret(BaseRemoteLabels, p, 1) : p \in PolicyChoices} }

\* one file, every update behaviour and previous version number
BehaviorInputs ==
    { Input(<<DbJson>>,
            << Definition("encrypted", BaseLabels, Arr(<<"X">>), b) >>,
            OnlyDb(r), NoFilter) :
        b \in BehaviorChoices,
        r \in {NoSecret} \cup
              { Secret(rl, BasePolicy, v) :
                  v \in 1..MaxVersion,
                  rl \in {BaseRemoteLabels,
                          << [key |-> "a", value |-> "2"] >>} } }

\* one file whose declared label value differs from the remote one, with the
\* update behaviour spelled out and no serviceAccounts
OrderInputs ==
    { Input(<<DbJson>>,
            << Definition(st, BaseLabels, Absent, "destroy") >>,
            OnlyDb(Secret(<< [key |-> "a", value |-> "2"] >>, BasePolicy, v)),
            NoFilter) :
        st \in {"encrypted", "decrypted"}, v \in 1..MaxVersion }

RECURSIVE SubLists(_, _)
\* the subsequences of s of length at most n (the listing order is kept)
SubLists(s, n) ==
    IF s = <<>> \/ n = 0 THEN { <<>> }
    ELSE { <<Head(s)>> \o t : t \in SubLists(Tail(s), n - 1) }
         \cup SubLists(Tail(s), n)

FileDefinitions ==
    { Definition("encrypted", BaseLabels, Arr(<<"X", "Y">>), Undefined),
      Definition("decrypted", Arr(<<>>), Absent, "none"),
      Definition("encrypted", Arr(<<Lbl("b", "2"), Lbl("a", "1")>>),
                 Arr(<<"Z">>), "disable"),
      Malformed }

\* several files, with and without the `secret` option
ListingInputs ==
    { Input(fs, ds, rem, s) :
        fs \in SubLists(FileNames, MaxFiles),
        ds \in UNION { [1..n -> FileDefinitions] : n \in 0..MaxFiles },
        rem \in [RemoteNames -> {NoSecret,
                                 Secret(BaseRemoteLabels, BasePolicy, 1)}],
        s \in {NoFilter, DbName, <<"zz">>} }

Inputs ==
    LabelInputs \cup BindingInputs \cup BehaviorInputs \cup OrderInputs
    \cup { x \in ListingInputs : Len(x.disk) = Len(x.files) }

\* ------------------------------------------------- helpers of the executor
\* secret.name.split('/secrets/').pop() on the listing's full resource name
FullName(id) == << <<"projects/1">>, id >>
NormalizeName(full) == full[Len(full)]

\* fileName.split('.'), pop(), join('.')
SecretNameOf(fileName) ==
    IF Len(fileName) = 0 THEN <<>> ELSE SubSeq(fileName, 1, Len(fileName) - 1)

\* mutant: the comparison is === instead of !==, the named secret is the one
\* left out
ShouldSkipInverted(optionsSecret, secretName) ==
    optionsSecret # NoFilter /\ optionsSecret = secretName

\* options.secret && options.secret !== secretName
ShouldSkip(optionsSecret, secretName) ==
    optionsSecret # NoFilter /\ optionsSecret # secretName

IsFileEncrypted(fileContent) == fileContent.status = "encrypted"

NotFound == [found |-> FALSE, name |-> <<>>, labels |-> <<>>]

RECURSIVE Find(_, _)
\* existingSecrets.find((secret) => secret.name === secretName)
Find(existing, secretName) ==
    IF existing = <<>> THEN NotFound
    ELSE IF Head(existing).name = secretName
         THEN [found |-> TRUE, name |-> Head(existing).name,
               labels |-> Head(existing).labels]
         ELSE Find(Tail(existing), secretName)

\* mutant: the update branch is taken whether or not the secret was found
BranchAlwaysUpdate(found) == "labels"

\* if (secretExists) { update } else { create }
Branch(found) == IF found.found THEN "labels" ELSE "create"

\* Object.keys(labels || {}).reduce(... `${labelKey}=${labels[labelKey]}`)
ExistingLabels(secretExists) ==
    [k \in 1..Len(secretExists.labels) |->
        Lbl(secretExists.labels[k].key, secretExists.labels[k].value)]

\* JSON.stringify(existingLabels) !== JSON.stringify(metadata.labels)
LabelsDiffer(existingLabels, declared) == declared # Arr(existingLabels)

\* fileContent.__gcp_metadata.onUpdateBehavior || 'destroy'
UpdateBehavior(fileContent) ==
    IF fileContent.onUpdateBehavior \in Falsy THEN "destroy"
    ELSE fileContent.onUpdateBehavior

\* mutant: the check of the behaviour against destroy and disable is lost
ShouldRetireUnlessNone(updateBehavior) == updateBehavior # "none"

\* updateBehavior !== 'none' && ['destroy', 'disable'].includes(updateBehavior)
ShouldRetire(updateBehavior) ==
    updateBehavior # "none" /\ updateBehavior \in {"destroy", "disable"}

\* mutant: the retired version is the one that was just added
PreviousVersionIsNew(newVersion) == newVersion

\* parseInt(newVersion, 10) - 1
PreviousVersion(newVersion) == newVersion - 1

\* metadata?.serviceAccounts && Array.isArray(metadata?.serviceAccounts)
ManagesServiceAccounts(fileContent) ==
    fileContent.serviceAccounts.kind = "array"

Includes(seq, x) == \E k \in 1..Len(seq) : seq[k] = x

RECURSIVE AccessorMembers(_)
\* bindings?.find(({ role }) => role === accessor)?.members ?? []
AccessorMembers(bindings) ==
    IF bindings = <<>> THEN <<>>
    ELSE IF Head(bindings).role = AccessorRole THEN Head(bindings).members
         ELSE AccessorMembers(Tail(bindings))

RECURSIVE Without(_, _)
\* seq.filter((account) => !other.includes(account))
Without(seq, other) ==
    IF seq = <<>> THEN <<>>
    ELSE IF Includes(other, Head(seq)) THEN Without(Tail(seq), other)
         ELSE <<Head(seq)>> \o Without(Tail(seq), other)

ServiceAccountsToDelete(existing, allowed) == Without(existing, allowed)
ServiceAccountsToAdd(allowed, existing) == Without(allowed, existing)

\* mutant: the comparison of the two lengths is inverted
RunSuccessInverted(secretsCreated, fileList) ==
    Cardinality({k \in 1..Len(secretsCreated) : secretsCreated[k] = "true"})
        # Len(fileList)

\* secretsCreated.filter(Boolean).length === files.length
RunSuccess(secretsCreated, fileList) ==
    Cardinality({k \in 1..Len(secretsCreated) : secretsCreated[k] = "true"})
        = Len(fileList)

\* ------------------------------------------------------------ collaborators
\* decryptFile(fileContent, true): the definition with its payload in clear
DecryptFile(fileContent) == [fileContent EXCEPT !.status = "decrypted"]

RECURSIVE ListOutput(_, _)
\* `gcloud secrets list --format=json`: the existing secrets with their labels
ListOutput(rem, order) ==
    IF order = <<>> THEN <<>>
    ELSE (IF rem[Head(order)].exists
          THEN << [name |-> FullName(Head(order)),
                   labels |-> rem[Head(order)].labels] >>
          ELSE <<>>) \o ListOutput(rem, Tail(order))

\* "k=v" as the service stores it
ParseLabels(items) ==
    [k \in 1..Len(items) |-> [key |-> items[k][1], value |-> items[k][3]]]

RECURSIVE WithMember(_, _)
\* add-iam-policy-binding on the accessor role
WithMember(bindings, m) ==
    IF bindings = <<>> THEN << [role |-> AccessorRole, members |-> <<m>>] >>
    ELSE IF Head(bindings).role = AccessorRole
         THEN << [Head(bindings) EXCEPT !.members =
                     IF Includes(@, m) THEN @ ELSE Append(@, m)] >>
              \o Tail(bindings)
         ELSE <<Head(bindings)>> \o WithMember(Tail(bindings), m)

\* remove-iam-policy-binding on the accessor role
WithoutMember(bindings, m) ==
    [k \in 1..Len(bindings) |->
        IF bindings[k].role = AccessorRole
        THEN [bindings[k] EXCEPT !.members = Without(@, <<m>>)]
        ELSE bindings[k]]

\* ------------------------------------------------------------------- state
VARIABLES
    keySet,           \* isEncryptionKeySet()
    optionsSecret,    \* options.secret
    files,            \* getAllSecretFiles(sourceRoot)
    disk,             \* the definition stored in each file
    preRun,           \* the files as they were before the run
    remote,           \* the remote secret service
    pc,               \* position in deployExecutor
    existingSecrets,  \* the listing snapshot
    i,                \* index of the file whose callback is running
    fileContent, isFileEncrypted, secretExists, success, newVersion,
    toAdd, toDelete,  \* principals still to grant / revoke
    secretsCreated,   \* outcome of each callback's promise
    ret,              \* the value deployExecutor resolves to
    log,              \* every remote command and warning issued, in order
    writes,           \* every storeFile call, in order
    reads,            \* every getFileContent call, in order
    faults            \* failures injected so far

vars == << keySet, optionsSecret, files, disk, preRun, remote, pc,
           existingSecrets, i, fileContent, isFileEncrypted, secretExists,
           success, newVersion, toAdd, toDelete, secretsCreated, ret, log,
           writes, reads, faults >>

inputVars == << keySet, optionsSecret, files, preRun >>
localVars == << fileContent, isFileEncrypted, secretExists, success,
                newVersion, toAdd, toDelete >>

NoContent == Malformed

Init ==
    \E x \in Inputs, k \in BOOLEAN :
        /\ keySet = k
        /\ optionsSecret = x.secret
        /\ files = x.files
        /\ disk = x.disk
        /\ preRun = x.disk
        /\ remote = x.remote
        /\ pc = "start"
        /\ existingSecrets = <<>>
        /\ i = 0
        /\ fileContent = NoContent
        /\ isFileEncrypted = FALSE
        /\ secretExists = NotFound
        /\ success = "undefined"
        /\ newVersion = 0
        /\ toAdd = <<>>
        /\ toDelete = <<>>
        /\ secretsCreated = [n \in 1..Len(x.files) |-> "pending"]
        /\ ret = "none"
        /\ log = <<>>
        /\ writes = <<>>
        /\ reads = <<>>
        /\ faults = 0

\* --------------------------------------------------------------- commands
\* addLabelsIfNeeded(labels, isCreating): the label flags of the command
AddLabelsIfNeeded(labels, isCreating) ==
    IF Len(labels) > 0
    THEN IF isCreating THEN <<"--labels">>
         ELSE <<"--clear-labels", "--update-labels">>
    ELSE <<"--clear-labels">>

SecretName == SecretNameOf(files[i])

\* one execCommand call against the remote service, as the log keeps it
Command(f, name, kind, flags, labels, mode, version, member, ok) ==
    [ file |-> f, secret |-> name, op |-> kind, flags |-> flags,
      labels |-> labels, mode |-> mode, version |-> version,
      member |-> member, ok |-> ok, members |-> <<>>, threw |-> FALSE ]

Cmd(kind, flags, labels, mode, version, member, ok) ==
    Command(i, SecretName, kind, flags, labels, mode, version, member, ok)

\* execCommand: a command the service rejects makes a `fatal` or `asJSON`
\* call throw; any other call returns { success: false } to its caller
ExecThrows(fatal, asJSON) == fatal \/ asJSON

\* the service may reject a command while the failure budget lasts
MayFail == faults < MaxFaults

Fault(ok) == faults' = IF ok THEN faults ELSE faults + 1

\* mutant: a callback that throws ends the whole map, as a loop awaiting
\* each callback in turn would
SettleAbortsMap(result) ==
    /\ secretsCreated' = [secretsCreated EXCEPT ![i] = result]
    /\ fileContent' = NoContent
    /\ isFileEncrypted' = FALSE
    /\ secretExists' = NotFound
    /\ success' = "undefined"
    /\ newVersion' = 0
    /\ toAdd' = <<>>
    /\ toDelete' = <<>>
    /\ IF i < Len(files) /\ result # "rejected"
       THEN i' = i + 1 /\ pc' = "file"
       ELSE i' = 0 /\ pc' = "await"

\* mutant: after the last callback, a rejected first callback is run again
SettleRetriesFirst(result) ==
    /\ secretsCreated' = [secretsCreated EXCEPT ![i] = result]
    /\ fileContent' = NoContent
    /\ isFileEncrypted' = FALSE
    /\ secretExists' = NotFound
    /\ success' = "undefined"
    /\ newVersion' = 0
    /\ toAdd' = <<>>
    /\ toDelete' = <<>>
    /\ IF i < Len(files)
       THEN i' = i + 1 /\ pc' = "file"
       ELSE IF i > 1 /\ secretsCreated[1] = "rejected"
            THEN i' = 1 /\ pc' = "file"
            ELSE i' = 0 /\ pc' = "await"

\* the callback of file i ends (returns, or throws and rejects its promise):
\* files.map goes on with the next file, and Promise.all is awaited after
\* the last one
Settle(result) ==
    /\ secretsCreated' = [secretsCreated EXCEPT ![i] = result]
    /\ fileContent' = NoContent
    /\ isFileEncrypted' = FALSE
    /\ secretExists' = NotFound
    /\ success' = "undefined"
    /\ newVersion' = 0
    /\ toAdd' = <<>>
    /\ toDelete' = <<>>
    /\ IF i < Len(files)
       THEN i' = i + 1 /\ pc' = "file"
       ELSE i' = 0 /\ pc' = "await"

\* ---------------------------------------------------------------- actions
\* mutant: the run goes on to the listing whether or not a key is set
CheckEncryptionKeyIgnored ==
    /\ pc = "start"
    /\ pc' = "list"
    /\ UNCHANGED << inputVars, reads, disk, remote, existingSecrets, i,
                    localVars, secretsCreated, ret, log, writes, faults >>

\* lines 35, 224-226
CheckEncryptionKey ==
    /\ pc = "start"
    /\ IF keySet
       THEN pc' = "list" /\ ret' = ret
       ELSE pc' = "done" /\ ret' = "true"
    /\ UNCHANGED << inputVars, reads, disk, remote, existingSecrets, i, localVars,
                    secretsCreated, log, writes, faults >>

\* lines 37-54: the listing, then files.map starts
ListSecrets ==
    /\ pc = "list"
    /\ existingSecrets' =
           [k \in 1..Len(ListOutput(remote, RemoteOrder)) |->
               [ListOutput(remote, RemoteOrder)[k] EXCEPT
                   !.name = NormalizeName(@)]]
    /\ log' = Append(log, Command(0, <<>>, "list", <<>>, <<>>, "", 0, "",
                                  TRUE))
    /\ IF Len(files) > 0
       THEN i' = 1 /\ pc' = "file"
       ELSE i' = 0 /\ pc' = "await"
    /\ UNCHANGED << inputVars, reads, disk, remote, localVars, secretsCreated, ret,
                    writes, faults >>

\* mutant: a failed listing is taken as an empty one and the run goes on
ListSecretsFailureIgnored ==
    /\ pc = "list"
    /\ MayFail
    /\ Fault(FALSE)
    /\ existingSecrets' = <<>>
    /\ log' = Append(log, Command(0, <<>>, "list", <<>>, <<>>, "", 0, "",
                                  FALSE))
    /\ IF Len(files) > 0
       THEN i' = 1 /\ pc' = "file"
       ELSE i' = 0 /\ pc' = "await"
    /\ UNCHANGED << inputVars, reads, disk, remote, localVars,
                    secretsCreated, ret, writes >>

\* lines 37-46: the listing command fails, execCommand's JSON.parse throws
ListSecretsThrows ==
    /\ pc = "list"
    /\ MayFail
    /\ ExecThrows(FALSE, TRUE)
    /\ Fault(FALSE)
    /\ log' = Append(log,
           [Command(0, <<>>, "list", <<>>, <<>>, "", 0, "", FALSE) EXCEPT
               !.threw = TRUE])
    /\ pc' = "catch"
    /\ UNCHANGED << inputVars, reads, disk, remote, existingSecrets, i, localVars,
                    secretsCreated, ret, writes >>

\* lines 55-64: the `secret` option names another secret
SkipFile ==
    /\ pc = "file"
    /\ ShouldSkip(optionsSecret, SecretName)
    /\ Settle("true")
    /\ UNCHANGED << inputVars, reads, disk, remote, existingSecrets, ret, log,
                    writes, faults >>

\* lines 66-68
ReadFile ==
    /\ pc = "file"
    /\ ~ShouldSkip(optionsSecret, SecretName)
    /\ ~disk[i].malformed
    /\ reads' = Append(reads, i)
    /\ fileContent' = disk[i]
    /\ isFileEncrypted' = IsFileEncrypted(disk[i])
    /\ pc' = "decrypt"
    /\ UNCHANGED << inputVars, disk, remote, existingSecrets, i,
                    secretExists, success, newVersion, toAdd, toDelete,
                    secretsCreated, ret, log, writes, faults >>

\* lines 67-68: getFileContent or the read of __gcp_metadata.status throws
ReadFileThrows ==
    /\ pc = "file"
    /\ ~ShouldSkip(optionsSecret, SecretName)
    /\ disk[i].malformed
    /\ reads' = Append(reads, i)
    /\ Settle("rejected")
    /\ UNCHANGED << inputVars, disk, remote, existingSecrets, ret, log,
                    writes, faults >>

\* lines 71-73: storeFile(file, decryptFile(fileContent, true))
Decrypt ==
    /\ pc = "decrypt"
    /\ IF isFileEncrypted
       THEN /\ disk' = [disk EXCEPT ![i] = DecryptFile(fileContent)]
            /\ writes' = Append(writes, [file |-> i, status |-> "decrypted"])
       ELSE UNCHANGED << disk, writes >>
    /\ pc' = "find"
    /\ UNCHANGED << inputVars, reads, remote, existingSecrets, i, localVars,
                    secretsCreated, ret, log, faults >>

\* mutant: a decryption error is swallowed and the callback goes on with the
\* content as read
DecryptThrowsSwallowed ==
    /\ pc = "decrypt"
    /\ isFileEncrypted
    /\ MayFail
    /\ Fault(FALSE)
    /\ pc' = "find"
    /\ UNCHANGED << inputVars, reads, disk, remote, existingSecrets, i,
                    localVars, secretsCreated, ret, log, writes >>

\* line 72: decryptFile throws, storeFile is not reached
DecryptThrows ==
    /\ pc = "decrypt"
    /\ isFileEncrypted
    /\ MayFail
    /\ Fault(FALSE)
    /\ Settle("rejected")
    /\ UNCHANGED << inputVars, reads, disk, remote, existingSecrets, ret, log,
                    writes >>

\* lines 76-81, 137
FindExisting ==
    /\ pc = "find"
    /\ secretExists' = Find(existingSecrets, SecretName)
    /\ pc' = Branch(Find(existingSecrets, SecretName))
    /\ UNCHANGED << inputVars, reads, disk, remote, existingSecrets, i, fileContent,
                    isFileEncrypted, success, newVersion, toAdd, toDelete,
                    secretsCreated, ret, log, writes, faults >>

\* line 89: the labels are the same, no command
KeepLabels ==
    /\ pc = "labels"
    /\ ~LabelsDiffer(ExistingLabels(secretExists), fileContent.labels)
    /\ pc' = "addVersion"
    /\ UNCHANGED << inputVars, reads, disk, remote, existingSecrets, i, localVars,
                    secretsCreated, ret, log, writes, faults >>

\* lines 89-99: `gcloud secrets update`, its result is not read
UpdateLabels ==
    /\ pc = "labels"
    /\ LabelsDiffer(ExistingLabels(secretExists), fileContent.labels)
    /\ fileContent.labels.kind = "array"
    /\ \E ok \in BOOLEAN :
        /\ ok \/ (MayFail /\ ~ExecThrows(FALSE, FALSE))
        /\ Fault(ok)
        /\ log' = Append(log,
               Cmd("updateLabels",
                   AddLabelsIfNeeded(fileContent.labels.items, FALSE),
                   fileContent.labels.items, "", 0, "", ok))
        /\ remote' = IF ok
                     THEN [remote EXCEPT ![SecretName].labels =
                              ParseLabels(fileContent.labels.items)]
                     ELSE remote
    /\ pc' = "addVersion"
    /\ UNCHANGED << inputVars, reads, disk, existingSecrets, i, localVars,
                    secretsCreated, ret, writes >>

\* lines 94, 145, 239: addLabelsIfNeeded reads labels.length of undefined
LabelsThrow ==
    /\ \/ pc = "labels" /\ LabelsDiffer(ExistingLabels(secretExists),
                                        fileContent.labels)
       \/ pc = "create"
    /\ fileContent.labels.kind # "array"
    /\ Settle("rejected")
    /\ UNCHANGED << inputVars, reads, disk, remote, existingSecrets, ret, log,
                    writes, faults >>

\* lines 102-113: `gcloud secrets versions add`
AddVersion ==
    /\ pc = "addVersion"
    /\ newVersion' = remote[SecretName].latest + 1
    /\ remote' = [remote EXCEPT ![SecretName].latest = @ + 1]
    /\ log' = Append(log, Cmd("addVersion", <<>>, <<>>, "",
                              remote[SecretName].latest + 1, "", TRUE))
    /\ pc' = "retire"
    /\ UNCHANGED << inputVars, reads, disk, existingSecrets, i, fileContent,
                    isFileEncrypted, secretExists, success, toAdd, toDelete,
                    secretsCreated, ret, writes, faults >>

\* lines 102-113: the command fails, reading the version of its output throws
AddVersionThrows ==
    /\ pc = "addVersion"
    /\ MayFail
    /\ ExecThrows(FALSE, TRUE)
    /\ Fault(FALSE)
    /\ log' = Append(log,
           [Cmd("addVersion", <<>>, <<>>, "", 0, "", FALSE) EXCEPT
               !.threw = TRUE])
    /\ Settle("rejected")
    /\ UNCHANGED << inputVars, reads, disk, remote, existingSecrets, ret, writes >>

\* lines 115-136: disable or destroy the previous version
RetireVersion ==
    /\ pc = "retire"
    /\ ShouldRetire(UpdateBehavior(fileContent))
    /\ \E ok \in BOOLEAN :
        /\ ok \/ (MayFail /\ ~ExecThrows(FALSE, FALSE))
        /\ Fault(ok)
        /\ log' = Append(log,
               Cmd("retireVersion", <<>>, <<>>, UpdateBehavior(fileContent),
                   PreviousVersion(newVersion), "", ok))
    /\ success' = "true"
    /\ pc' = "reencrypt"
    /\ UNCHANGED << inputVars, reads, disk, remote, existingSecrets, i, fileContent,
                    isFileEncrypted, secretExists, newVersion, toAdd,
                    toDelete, secretsCreated, ret, writes >>

\* mutant: an unknown onUpdateBehavior is an error that rejects the callback
\* instead of a warning
KeepVersionRejectsUnknown ==
    /\ pc = "retire"
    /\ ~ShouldRetire(UpdateBehavior(fileContent))
    /\ IF UpdateBehavior(fileContent) # "none"
       THEN /\ Settle("rejected")
            /\ UNCHANGED << inputVars, reads, disk, remote, existingSecrets,
                            ret, log, writes, faults >>
       ELSE /\ success' = "true"
            /\ pc' = "reencrypt"
            /\ UNCHANGED << inputVars, reads, disk, remote, existingSecrets,
                            i, fileContent, isFileEncrypted, secretExists,
                            newVersion, toAdd, toDelete, secretsCreated, ret,
                            log, writes, faults >>

\* lines 117, 131-136: 'none', or a warning for an unknown behaviour
KeepVersion ==
    /\ pc = "retire"
    /\ ~ShouldRetire(UpdateBehavior(fileContent))
    /\ log' = IF UpdateBehavior(fileContent) # "none"
              THEN Append(log, Cmd("warn", <<>>, <<>>,
                                   UpdateBehavior(fileContent), 0, "", TRUE))
              ELSE log
    /\ success' = "true"
    /\ pc' = "reencrypt"
    /\ UNCHANGED << inputVars, reads, disk, remote, existingSecrets, i,
                    fileContent, isFileEncrypted, secretExists, newVersion,
                    toAdd, toDelete, secretsCreated, ret, writes, faults >>

\* lines 138-154: `gcloud secrets create`
CreateSecret ==
    /\ pc = "create"
    /\ fileContent.labels.kind = "array"
    /\ ~remote[SecretName].exists
    /\ log' = Append(log,
           Cmd("create", AddLabelsIfNeeded(fileContent.labels.items, TRUE),
               fileContent.labels.items, "", 0, "", TRUE))
    /\ remote' = [remote EXCEPT ![SecretName] =
                     Secret(ParseLabels(fileContent.labels.items), <<>>, 1)]
    /\ success' = "true"
    /\ pc' = "reencrypt"
    /\ UNCHANGED << inputVars, reads, disk, existingSecrets, i, fileContent,
                    isFileEncrypted, secretExists, newVersion, toAdd,
                    toDelete, secretsCreated, ret, writes, faults >>

\* mutant: the rejected create returns { success: false } and the callback
\* goes on
CreateSecretReturnsFailure ==
    /\ pc = "create"
    /\ fileContent.labels.kind = "array"
    /\ \/ remote[SecretName].exists /\ UNCHANGED faults
       \/ ~remote[SecretName].exists /\ MayFail /\ Fault(FALSE)
    /\ log' = Append(log,
           Cmd("create", AddLabelsIfNeeded(fileContent.labels.items, TRUE),
               fileContent.labels.items, "", 0, "", FALSE))
    /\ success' = "false"
    /\ pc' = "reencrypt"
    /\ UNCHANGED << inputVars, reads, disk, remote, existingSecrets, i, fileContent,
                    isFileEncrypted, secretExists, newVersion, toAdd,
                    toDelete, secretsCreated, ret, writes >>

\* lines 140-151: the service rejects the create, the fatal call throws
CreateSecretThrows ==
    /\ pc = "create"
    /\ fileContent.labels.kind = "array"
    /\ ExecThrows(TRUE, FALSE)
    /\ \/ remote[SecretName].exists /\ UNCHANGED faults
       \/ ~remote[SecretName].exists /\ MayFail /\ Fault(FALSE)
    /\ log' = Append(log,
           [Cmd("create", AddLabelsIfNeeded(fileContent.labels.items, TRUE),
                fileContent.labels.items, "", 0, "", FALSE) EXCEPT
               !.threw = TRUE])
    /\ Settle("rejected")
    /\ UNCHANGED << inputVars, reads, disk, remote, existingSecrets, ret, writes >>

\* lines 157-159: storeFile(file, fileContent)
ReEncrypt ==
    /\ pc = "reencrypt"
    /\ IF isFileEncrypted
       THEN /\ disk' = [disk EXCEPT ![i] = fileContent]
            /\ writes' = Append(writes,
                                [file |-> i, status |-> fileContent.status])
       ELSE UNCHANGED << disk, writes >>
    /\ pc' = "iam"
    /\ UNCHANGED << inputVars, reads, remote, existingSecrets, i, localVars,
                    secretsCreated, ret, log, faults >>

\* mutant: serviceAccounts that are absent or not an array are taken as an
\* empty list, and the policy is reconciled against it
GetIamPolicyAbsentAsEmpty ==
    /\ pc = "iam"
    /\ LET existing == AccessorMembers(remote[SecretName].policy)
           allowed == IF fileContent.serviceAccounts.kind = "array"
                      THEN fileContent.serviceAccounts.items
                      ELSE <<>>
       IN /\ toDelete' = ServiceAccountsToDelete(existing, allowed)
          /\ toAdd' = ServiceAccountsToAdd(allowed, existing)
    /\ log' = Append(log,
           [Cmd("getIamPolicy", <<>>, <<>>, "", 0, "", TRUE) EXCEPT
               !.members = AccessorMembers(remote[SecretName].policy)])
    /\ pc' = "bindings"
    /\ UNCHANGED << inputVars, reads, disk, remote, existingSecrets, i,
                    fileContent, isFileEncrypted, secretExists, success,
                    newVersion, secretsCreated, ret, writes, faults >>

\* lines 162-183: `gcloud secrets get-iam-policy`, then the two differences
GetIamPolicy ==
    /\ pc = "iam"
    /\ ManagesServiceAccounts(fileContent)
    /\ LET existing == AccessorMembers(remote[SecretName].policy)
           allowed == fileContent.serviceAccounts.items
       IN /\ toDelete' = ServiceAccountsToDelete(existing, allowed)
          /\ toAdd' = ServiceAccountsToAdd(allowed, existing)
    /\ log' = Append(log,
           [Cmd("getIamPolicy", <<>>, <<>>, "", 0, "", TRUE) EXCEPT
               !.members = AccessorMembers(remote[SecretName].policy)])
    /\ pc' = "bindings"
    /\ UNCHANGED << inputVars, reads, disk, remote, existingSecrets, i, fileContent,
                    isFileEncrypted, secretExists, success, newVersion,
                    secretsCreated, ret, writes, faults >>

\* lines 165-183: the policy cannot be read and the call returns a value
\* without bindings, which line 178 allows for: no member is known, every
\* declared principal is granted and none is revoked
GetIamPolicyNoBindings ==
    /\ pc = "iam"
    /\ ManagesServiceAccounts(fileContent)
    /\ MayFail
    /\ Fault(FALSE)
    /\ LET existing == <<>>
           allowed == fileContent.serviceAccounts.items
       IN /\ toDelete' = ServiceAccountsToDelete(existing, allowed)
          /\ toAdd' = ServiceAccountsToAdd(allowed, existing)
    /\ log' = Append(log, Cmd("getIamPolicy", <<>>, <<>>, "", 0, "", FALSE))
    /\ pc' = "bindings"
    /\ UNCHANGED << inputVars, reads, disk, remote, existingSecrets, i,
                    fileContent, isFileEncrypted, secretExists, success,
                    newVersion, secretsCreated, ret, writes >>

\* lines 165-175: the policy cannot be read and execCommand's JSON.parse
\* throws.  What a failed policy read yields is written neither in the
\* source nor in spec.md, so both outcomes are possible: this one and
\* GetIamPolicyNoBindings
GetIamPolicyThrows ==
    /\ pc = "iam"
    /\ ManagesServiceAccounts(fileContent)
    /\ MayFail
    /\ Fault(FALSE)
    /\ log' = Append(log,
           [Cmd("getIamPolicy", <<>>, <<>>, "", 0, "", FALSE) EXCEPT
               !.threw = TRUE])
    /\ Settle("rejected")
    /\ UNCHANGED << inputVars, reads, disk, remote, existingSecrets, ret, writes >>

\* lines 185-196: one add-iam-policy-binding per entry of serviceAccountsToAdd
Grant ==
    /\ pc = "bindings"
    /\ toAdd # <<>>
    /\ \E ok \in BOOLEAN :
        /\ ok \/ (MayFail /\ ~ExecThrows(FALSE, FALSE))
        /\ Fault(ok)
        /\ log' = Append(log,
               Cmd("grant", <<>>, <<>>, "", 0, Head(toAdd), ok))
        /\ remote' = IF ok
                     THEN [remote EXCEPT ![SecretName].policy =
                              WithMember(@, Head(toAdd))]
                     ELSE remote
    /\ toAdd' = Tail(toAdd)
    /\ UNCHANGED << inputVars, reads, disk, existingSecrets, i, pc, fileContent,
                    isFileEncrypted, secretExists, success, newVersion,
                    toDelete, secretsCreated, ret, writes >>

\* lines 198-209: one remove-iam-policy-binding per entry of
\* serviceAccountsToDelete, after the grants
Revoke ==
    /\ pc = "bindings"
    /\ toAdd = <<>>
    /\ toDelete # <<>>
    /\ \E ok \in BOOLEAN :
        /\ ok \/ (MayFail /\ ~ExecThrows(FALSE, FALSE))
        /\ Fault(ok)
        /\ log' = Append(log,
               Cmd("revoke", <<>>, <<>>, "", 0, Head(toDelete), ok))
        /\ remote' = IF ok
                     THEN [remote EXCEPT ![SecretName].policy =
                              WithoutMember(@, Head(toDelete))]
                     ELSE remote
    /\ toDelete' = Tail(toDelete)
    /\ UNCHANGED << inputVars, reads, disk, existingSecrets, i, pc, fileContent,
                    isFileEncrypted, secretExists, success, newVersion,
                    toAdd, secretsCreated, ret, writes >>

\* line 212: return success
ReturnSuccess ==
    /\ \/ pc = "iam" /\ ~ManagesServiceAccounts(fileContent)
       \/ pc = "bindings" /\ toAdd = <<>> /\ toDelete = <<>>
    /\ Settle(success)
    /\ UNCHANGED << inputVars, reads, disk, remote, existingSecrets, ret, log,
                    writes, faults >>

\* lines 54, 213: await Promise.all rejects when a callback threw
AwaitAll ==
    /\ pc = "await"
    /\ pc' = IF \E k \in 1..Len(secretsCreated) :
                    secretsCreated[k] = "rejected"
             THEN "catch" ELSE "return"
    /\ UNCHANGED << inputVars, reads, disk, remote, existingSecrets, i, localVars,
                    secretsCreated, ret, log, writes, faults >>

\* lines 215-217
ReturnResult ==
    /\ pc = "return"
    /\ ret' = IF RunSuccess(secretsCreated, files) THEN "true" ELSE "false"
    /\ pc' = "done"
    /\ UNCHANGED << inputVars, reads, disk, remote, existingSecrets, i, localVars,
                    secretsCreated, log, writes, faults >>

\* lines 218-223
CatchError ==
    /\ pc = "catch"
    /\ ret' = "false"
    /\ pc' = "done"
    /\ UNCHANGED << inputVars, reads, disk, remote, existingSecrets, i, localVars,
                    secretsCreated, log, writes, faults >>

Next ==
    \/ CheckEncryptionKey
    \/ ListSecrets
    \/ ListSecretsThrows
    \/ SkipFile
    \/ ReadFile
    \/ ReadFileThrows
    \/ Decrypt
    \/ DecryptThrows
    \/ FindExisting
    \/ KeepLabels
    \/ UpdateLabels
    \/ LabelsThrow
    \/ AddVersion
    \/ AddVersionThrows
    \/ RetireVersion
    \/ KeepVersion
    \/ CreateSecret
    \/ CreateSecretThrows
    \/ ReEncrypt
    \/ GetIamPolicy
    \/ GetIamPolicyNoBindings
    \/ GetIamPolicyThrows
    \/ Grant
    \/ Revoke
    \/ ReturnSuccess
    \/ AwaitAll
    \/ ReturnResult
    \/ CatchError

Spec == Init /\ [][Next]_vars

\* ------------------------------------------------- vocabulary of the claims
FileIds == 1..Len(files)
NameOf(f) == SecretNameOf(files[f])

\* the `secret` option leaves file f out
Skipped(f) == optionsSecret # NoFilter /\ optionsSecret # NameOf(f)

\* the callback of file f has returned or thrown
Settled(f) == secretsCreated[f] # "pending"

\* the callback of file f is running and stands at one of the positions
At(f, positions) == i = f /\ pc \in positions

\* positions in the log of the commands of the given kinds issued for file f
Issued(f, kinds) ==
    {k \in 1..Len(log) : log[k].file = f /\ log[k].op \in kinds}

Failed(f, kinds) == {k \in Issued(f, kinds) : ~log[k].ok}

\* the remote listing was read
Listed == \E k \in 1..Len(log) : log[k].op = "list" /\ log[k].ok

\* commands and file writes that change something
Mutations ==
    {k \in 1..Len(log) : log[k].op \notin {"list", "getIamPolicy", "warn"}}

InSnapshot(f) ==
    \E k \in 1..Len(existingSecrets) : existingSecrets[k].name = NameOf(f)

SnapshotLabels(f) ==
    LET e == CHOOSE k \in 1..Len(existingSecrets) :
                 existingSecrets[k].name = NameOf(f)
    IN { Lbl(existingSecrets[e].labels[k].key,
             existingSecrets[e].labels[k].value) :
           k \in 1..Len(existingSecrets[e].labels) }

Encrypted(f) == ~preRun[f].malformed /\ preRun[f].status = "encrypted"
DeclaresLabels(f) == preRun[f].labels.kind = "array"
DeclaredLabels(f) ==
    {preRun[f].labels.items[k] : k \in 1..Len(preRun[f].labels.items)}
DeclaresAccounts(f) == preRun[f].serviceAccounts.kind = "array"
DeclaredAccounts(f) ==
    { preRun[f].serviceAccounts.items[k] :
        k \in 1..Len(preRun[f].serviceAccounts.items) }
EffectiveBehavior(f) ==
    IF preRun[f].onUpdateBehavior \in {Undefined, Null, ""} THEN "destroy"
    ELSE preRun[f].onUpdateBehavior

WasDecrypted(f) ==
    \E k \in 1..Len(writes) : writes[k] = [file |-> f, status |-> "decrypted"]

\* the callback of file f got past reading and decrypting its file
Reconciling(f) ==
    /\ ~Skipped(f)
    /\ ~preRun[f].malformed
    /\ Encrypted(f) => WasDecrypted(f)
    /\ Settled(f) \/ At(f, {"find", "labels", "addVersion", "retire",
                            "create", "reencrypt", "iam", "bindings"})

\* positions in the log of the commands of file f that threw
Thrown(f, kinds) == {k \in Issued(f, kinds) : log[k].threw}

\* the callback of file f threw: at the read, at the decryption, at the
\* label flags of a definition without labels, or in a command that threw
Threw(f) ==
    \/ preRun[f].malformed
    \/ Encrypted(f) /\ ~WasDecrypted(f)
    \/ ~DeclaresLabels(f)
    \/ Thrown(f, {"create", "addVersion", "getIamPolicy"}) # {}

\* ------------------------------------------------------------------ claims

\* C1: when deployExecutor returns, every declared file has the encryption
\* status it had before the run, on every exit path.
C1_EncryptionRestored ==
    pc = "done" => \A f \in FileIds : disk[f].status = preRun[f].status

\* C2: an exception in one secret's callback is a failure of that secret
\* only: its file is written back as it was, and every other declared secret
\* is still taken to the end of its callback.
C2_ExceptionIsolated ==
    pc = "done" =>
        \A f \in FileIds :
            secretsCreated[f] = "rejected" =>
                /\ disk[f] = preRun[f]
                /\ \A g \in FileIds \ {f} : Settled(g)

\* C3 as stated: the returned success is true exactly when every secret the
\* `secret` option does not skip succeeded, and a `secret` option that
\* matches no file gives success without any file write or remote change.
C3_SuccessIffAllSucceeded ==
    pc = "done" /\ keySet =>
        /\ ret = "true" <=>
               \A f \in FileIds : ~Skipped(f) => secretsCreated[f] = "true"
        /\ (\A f \in FileIds : Skipped(f)) =>
               ret = "true" /\ Mutations = {} /\ writes = <<>>

\* C3 amended: the same, in a run whose remote listing was read.
C3_SuccessIffAllSucceededOnceListed ==
    pc = "done" /\ Listed =>
        /\ ret = "true" <=>
               \A f \in FileIds : ~Skipped(f) => secretsCreated[f] = "true"
        /\ (\A f \in FileIds : Skipped(f)) =>
               ret = "true" /\ Mutations = {} /\ writes = <<>>

C3_Witness ==
    /\ pc = "done"
    /\ Listed
    /\ ret = "false"
    /\ \E f, g \in FileIds :
        /\ Skipped(f)
        /\ ~Skipped(g)
        /\ secretsCreated[g] = "rejected"

\* C4: a secret absent from the listing snapshot gets no updateLabels,
\* addVersion or retireVersion command and at most one create; once the
\* callback of a definition with labels is past its create step, exactly
\* one create was issued, with the declared labels, whatever onUpdateBehavior.
C4_AbsentSecretIsOnlyCreated ==
    \A f \in FileIds :
        Listed /\ ~InSnapshot(f) =>
            /\ Issued(f, {"updateLabels", "addVersion", "retireVersion"}) = {}
            /\ Cardinality(Issued(f, {"create"})) <= 1
            /\ ( /\ Reconciling(f)
                 /\ DeclaresLabels(f)
                 /\ Settled(f) \/ At(f, {"reencrypt", "iam", "bindings"}) )
               => /\ Cardinality(Issued(f, {"create"})) = 1
                  /\ \A k \in Issued(f, {"create"}) :
                        log[k].labels = preRun[f].labels.items

C4_Witness ==
    /\ pc = "done"
    /\ \E f \in FileIds :
        /\ ~InSnapshot(f)
        /\ preRun[f].onUpdateBehavior = "disable"
        /\ secretsCreated[f] = "true"
        /\ Cardinality(Issued(f, {"create"})) = 1

\* C5 as stated: for a secret of the snapshot, retireVersion is issued
\* exactly when addVersion succeeded and onUpdateBehavior is not `none`.
C5_RetireUnlessNone ==
    \A f \in FileIds :
        Listed /\ InSnapshot(f)
               /\ (Settled(f) \/ At(f, {"reencrypt", "iam", "bindings"})) =>
            ( Issued(f, {"retireVersion"}) # {} <=>
                /\ Issued(f, {"addVersion"}) \ Failed(f, {"addVersion"}) # {}
                /\ EffectiveBehavior(f) # "none" )

\* C5 amended: for a secret of the snapshot, addVersion is issued once the
\* label step is done, whether or not the labels changed, and
\* retireVersion is issued exactly when addVersion succeeded and
\* onUpdateBehavior (destroy when absent) is disable or destroy.
C5_AddVersionThenRetire ==
    \A f \in FileIds :
        Listed /\ InSnapshot(f) =>
            /\ Issued(f, {"create"}) = {}
            /\ ( /\ Reconciling(f)
                 /\ DeclaresLabels(f)
                 /\ Settled(f) \/ At(f, {"retire", "reencrypt", "iam",
                                         "bindings"}) )
               => Cardinality(Issued(f, {"addVersion"})) = 1
            /\ (Settled(f) \/ At(f, {"reencrypt", "iam", "bindings"})) =>
                 ( Cardinality(Issued(f, {"retireVersion"})) = 1 <=>
                     /\ Issued(f, {"addVersion"})
                            \ Failed(f, {"addVersion"}) # {}
                     /\ EffectiveBehavior(f) \in {"disable", "destroy"} )
            /\ Cardinality(Issued(f, {"retireVersion"})) <= 1

C5_Witness ==
    /\ pc = "done"
    /\ \E f \in FileIds :
        /\ InSnapshot(f)
        /\ EffectiveBehavior(f) = "archive"
        /\ Issued(f, {"updateLabels"}) = {}
        /\ Cardinality(Issued(f, {"addVersion"})) = 1
        /\ Issued(f, {"retireVersion"}) = {}
        /\ secretsCreated[f] = "true"

\* C6: for a secret of the snapshot, updateLabels is issued exactly when the
\* set of remote key=value labels differs from the set of declared labels.
C6_LabelDiffIsSetComparison ==
    \A f \in FileIds :
        ( /\ Listed /\ InSnapshot(f)
          /\ Reconciling(f)
          /\ DeclaresLabels(f)
          /\ Settled(f) \/ At(f, {"addVersion", "retire", "reencrypt", "iam",
                                  "bindings"}) )
        => ( Issued(f, {"updateLabels"}) # {} <=>
                SnapshotLabels(f) # DeclaredLabels(f) )

\* C7: when serviceAccounts is declared and the policy was read, the
\* principals granted are the declared ones that are no accessor member, the
\* principals revoked are the accessor members that are not declared, and
\* each of them gets exactly one command.
C7_BindingDiffIsSetDifference ==
    \A f \in FileIds :
        secretsCreated[f] = "true" /\ ~Skipped(f) =>
            \A r \in Issued(f, {"getIamPolicy"}) :
                LET current == {log[r].members[k] :
                                   k \in 1..Len(log[r].members)}
                    grants == Issued(f, {"grant"})
                    revokes == Issued(f, {"revoke"})
                IN /\ {log[k].member : k \in grants}
                        = DeclaredAccounts(f) \ current
                   /\ Cardinality(grants)
                        = Cardinality(DeclaredAccounts(f) \ current)
                   /\ {log[k].member : k \in revokes}
                        = current \ DeclaredAccounts(f)
                   /\ Cardinality(revokes)
                        = Cardinality(current \ DeclaredAccounts(f))

\* C8: a rejected create fails its secret, is the only create of that
\* secret, and no command (policy read, grant, revoke) follows it for that
\* secret.
C8_RejectedCreateAborts ==
    \A k \in 1..Len(log) :
        log[k].op = "create" /\ ~log[k].ok =>
            /\ secretsCreated[log[k].file] = "rejected"
            /\ Issued(log[k].file, {"create"}) = {k}
            /\ \A n \in (k + 1)..Len(log) : log[n].file # log[k].file

C8_Witness ==
    /\ pc = "done"
    /\ \E f \in FileIds :
        /\ Failed(f, {"create"}) # {}
        /\ DeclaresAccounts(f)
        /\ Encrypted(f)

\* C9: a failed addVersion fails its secret and no retireVersion, policy
\* read, grant or revoke follows for that secret; every other declared
\* secret is still taken to the end of its callback and succeeds unless its
\* own callback threw.
C9_FailedAddVersionAborts ==
    \A k \in 1..Len(log) :
        log[k].op = "addVersion" /\ ~log[k].ok =>
            /\ secretsCreated[log[k].file] = "rejected"
            /\ \A n \in (k + 1)..Len(log) : log[n].file # log[k].file
            /\ pc = "done" =>
                 \A g \in FileIds \ {log[k].file} :
                     /\ Settled(g)
                     /\ ~Skipped(g) /\ ~Threw(g) => secretsCreated[g] = "true"

C9_Witness ==
    /\ pc = "done"
    /\ \E f, g \in FileIds :
        /\ f < g
        /\ Failed(f, {"addVersion"}) # {}
        /\ EffectiveBehavior(f) = "destroy"
        /\ DeclaresAccounts(f)
        /\ ~Skipped(g)
        /\ secretsCreated[g] = "true"
        /\ Issued(g, {"create", "addVersion"}) # {}

\* C10: a secret whose create or addVersion succeeded is reported
\* successful whatever became of updateLabels, retireVersion, grant and
\* revoke, and a secret whose definition was read and decrypted is reported
\* failed only when its create or addVersion failed.
C10_FailedOnlyByCreateOrAddVersion ==
    \A f \in FileIds :
        Settled(f) /\ Reconciling(f) /\ DeclaresLabels(f) =>
            /\ Issued(f, {"create", "addVersion"})
                   \ Failed(f, {"create", "addVersion"}) # {}
               => secretsCreated[f] = "true"
            /\ secretsCreated[f] # "true"
               => Failed(f, {"create", "addVersion"}) # {}

\* principals named by the commands of the given kinds issued for file f
MembersOf(f, kinds) == {log[k].member : k \in Issued(f, kinds)}

\* the accessor members that the policy read of file f returned
PolicyMembers(f) ==
    LET r == CHOOSE k \in Issued(f, {"getIamPolicy"}) : TRUE
    IN {log[r].members[k] : k \in 1..Len(log[r].members)}

\* C11: onUpdateBehavior = none never produces a retireVersion command.  A
\* value other than none, disable and destroy produces none either, only one
\* warning, and the secret whose new version was added is still reported
\* successful with the rest of its plan carried out: its file is back in
\* its original encryption status, and the declared serviceAccounts are
\* reconciled against the policy that was read (the policy read itself not
\* throwing).
C11_UnknownBehaviorOnlyWarns ==
    \A f \in FileIds :
        /\ EffectiveBehavior(f) \notin {"disable", "destroy"}
               => Issued(f, {"retireVersion"}) = {}
        /\ EffectiveBehavior(f) = "none" => Issued(f, {"warn"}) = {}
        /\ ( /\ EffectiveBehavior(f) \notin {"none", "disable", "destroy"}
             /\ Settled(f)
             /\ Issued(f, {"addVersion"}) # {}
             /\ Thrown(f, {"addVersion", "getIamPolicy"}) = {} )
           => /\ Cardinality(Issued(f, {"warn"})) = 1
              /\ \A w \in Issued(f, {"warn"}) :
                    /\ log[w].mode = EffectiveBehavior(f)
                    /\ \A k \in Issued(f, {"addVersion"}) : k < w
                    /\ \A k \in Issued(f, {"getIamPolicy", "grant",
                                           "revoke"}) : w < k
              /\ secretsCreated[f] = "true"
              /\ disk[f].status = preRun[f].status
              /\ Encrypted(f) => \E k \in 1..Len(writes) :
                    /\ writes[k] = [file |-> f, status |-> "encrypted"]
                    /\ \A j \in 1..Len(writes) : writes[j].file = f => j <= k
              /\ DeclaresAccounts(f) =>
                    /\ Cardinality(Issued(f, {"getIamPolicy"})) = 1
                    /\ MembersOf(f, {"grant"})
                           = DeclaredAccounts(f) \ PolicyMembers(f)
                    /\ MembersOf(f, {"revoke"})
                           = PolicyMembers(f) \ DeclaredAccounts(f)
              /\ ~DeclaresAccounts(f) =>
                    Issued(f, {"getIamPolicy", "grant", "revoke"}) = {}

\* an encrypted definition with onUpdateBehavior = archive got a new
\* version, a warning, its file re-encrypted, a grant and a revoke, and is
\* reported successful
C11_Witness ==
    /\ pc = "done"
    /\ \E f \in FileIds :
        /\ EffectiveBehavior(f) = "archive"
        /\ Encrypted(f)
        /\ WasDecrypted(f)
        /\ disk[f].status = "encrypted"
        /\ Issued(f, {"addVersion"}) # {}
        /\ Issued(f, {"warn"}) # {}
        /\ Issued(f, {"retireVersion"}) = {}
        /\ Issued(f, {"grant"}) # {}
        /\ Issued(f, {"revoke"}) # {}
        /\ secretsCreated[f] = "true"

\* place of a command in the fixed order of an existing secret's commands
Rank(op) ==
    CASE op = "updateLabels" -> 1
      [] op = "addVersion" -> 2
      [] op \in {"retireVersion", "warn"} -> 3
      [] op = "getIamPolicy" -> 4
      [] op \in {"grant", "revoke"} -> 5
      [] OTHER -> 0

UnitOps ==
    {"updateLabels", "addVersion", "retireVersion", "warn", "create",
     "getIamPolicy", "grant", "revoke"}

RECURSIVE OpsOf(_, _)
\* the kinds of the commands issued for file f, in the order of the log
OpsOf(f, l) ==
    IF l = <<>> THEN <<>>
    ELSE IF Head(l).file = f /\ Head(l).op \in UnitOps
         THEN <<Head(l).op>> \o OpsOf(f, Tail(l))
         ELSE OpsOf(f, Tail(l))

\* C12: the commands of a secret that exists in the listing are issued in
\* the order updateLabels (when the labels differ), addVersion,
\* retireVersion(mode) on the version before the new one, then the binding
\* changes.  With a remote label value that differs from the declared one,
\* onUpdateBehavior = destroy and no serviceAccounts, the commands are
\* exactly updateLabels, addVersion, retireVersion(destroy, new version - 1).
C12_ExistingSecretOrder ==
    \A f \in FileIds : InSnapshot(f) =>
        /\ Issued(f, {"create"}) = {}
        /\ \A j, k \in Issued(f, UnitOps) : j < k =>
              /\ Rank(log[j].op) <= Rank(log[k].op)
              /\ Rank(log[j].op) < 5 => Rank(log[j].op) < Rank(log[k].op)
        /\ ( /\ Issued(f, {"addVersion"}) # {}
             /\ DeclaresLabels(f)
             /\ SnapshotLabels(f) # DeclaredLabels(f) )
           => Issued(f, {"updateLabels"}) # {}
        /\ \A r \in Issued(f, {"retireVersion"}) :
              /\ log[r].mode = EffectiveBehavior(f)
              /\ \E a \in Issued(f, {"addVersion"}) :
                    /\ log[a].ok
                    /\ log[r].version = log[a].version - 1
        /\ ( /\ secretsCreated[f] = "true"
             /\ ~Skipped(f)
             /\ DeclaresLabels(f)
             /\ SnapshotLabels(f) # DeclaredLabels(f)
             /\ preRun[f].onUpdateBehavior = "destroy"
             /\ ~DeclaresAccounts(f) )
           => /\ OpsOf(f, log)
                    = <<"updateLabels", "addVersion", "retireVersion">>
              /\ \A r \in Issued(f, {"retireVersion"}) :
                    log[r].mode = "destroy"

\* remote label a=2, declared a=1, destroy, no serviceAccounts, latest
\* version 2: the run issued updateLabels, addVersion (version 3) and
\* retireVersion(destroy, 2)
C12_Witness ==
    /\ pc = "done"
    /\ \E f \in FileIds :
        /\ InSnapshot(f)
        /\ preRun[f].onUpdateBehavior = "destroy"
        /\ ~DeclaresAccounts(f)
        /\ SnapshotLabels(f) # DeclaredLabels(f)
        /\ secretsCreated[f] = "true"
        /\ OpsOf(f, log) = <<"updateLabels", "addVersion", "retireVersion">>
        /\ \E r \in Issued(f, {"retireVersion"}) :
              log[r].mode = "destroy" /\ log[r].version = 2
        /\ \E a \in Issued(f, {"addVersion"}) : log[a].version = 3

\* the files that getFileContent was called on, and those that were written
FilesRead == {reads[k] : k \in 1..Len(reads)}
FilesWritten == {writes[k].file : k \in 1..Len(writes)}

\* C13: when the `secret` option is set, every declared file whose secret
\* name differs from it is skipped without effect: it is not read, not
\* decrypted, not written, no command is issued for its name, and its
\* callback reports success; only the named secret is reconciled.
C13_FilterSkipsOthers ==
    optionsSecret # NoFilter =>
        /\ \A f \in FileIds : NameOf(f) # optionsSecret =>
              /\ f \notin FilesRead
              /\ f \notin FilesWritten
              /\ disk[f] = preRun[f]
              /\ Issued(f, UnitOps) = {}
              /\ \A k \in 1..Len(log) :
                    log[k].op # "list" => log[k].secret # NameOf(f)
              /\ Settled(f) => secretsCreated[f] = "true"
        /\ \A k \in 1..Len(log) :
              log[k].op # "list" => log[k].secret = optionsSecret
        /\ \A f \in FileIds :
              (NameOf(f) = optionsSecret /\ Settled(f)) => f \in FilesRead

\* `secret` = db with the files api.prod.json and db.json: api.prod was
\* skipped untouched and reported successful, db was read, decrypted and
\* created or updated
C13_Witness ==
    /\ pc = "done"
    /\ optionsSecret = DbName
    /\ \E f, g \in FileIds :
        /\ NameOf(f) = ApiName
        /\ Encrypted(f)
        /\ f \notin FilesRead
        /\ secretsCreated[f] = "true"
        /\ NameOf(g) = DbName
        /\ g \in FilesRead
        /\ WasDecrypted(g)
        /\ Issued(g, {"create", "addVersion"}) # {}
        /\ secretsCreated[g] = "true"

\* C14: without an encryption key deployExecutor returns success and does
\* nothing: no listing, no file read or write, no command, whatever the
\* declared files and the options are.
C14_NoKeyDoesNothing ==
    ~keySet =>
        /\ pc \in {"start", "done"}
        /\ pc = "done" => ret = "true"
        /\ log = <<>>
        /\ reads = <<>>
        /\ writes = <<>>
        /\ disk = preRun
        /\ existingSecrets = <<>>
        /\ \A f \in FileIds : ~Settled(f)

\* no key, two declared files of which one is encrypted and absent from the
\* remote service, the `secret` option set: the run has returned success
C14_Witness ==
    /\ ~keySet
    /\ pc = "done"
    /\ ret = "true"
    /\ Len(files) = 2
    /\ optionsSecret # NoFilter
    /\ \E f \in FileIds : Encrypted(f) /\ ~remote[NameOf(f)].exists

\* positions in the log of the listing command
Listings == {k \in 1..Len(log) : log[k].op = "list"}

\* C15: the remote listing is read once per run, before any file is read
\* or written and before any other command, and never again; when the
\* listing command fails the run ends with result failure, and no file was
\* read or written and no other command issued.
C15_ListedOnceFirst ==
    /\ Cardinality(Listings) <= 1
    /\ log # <<>> => log[1].op = "list"
    /\ (keySet /\ pc \notin {"start", "list"}) => Cardinality(Listings) = 1
    /\ ( \/ reads # <<>>
         \/ writes # <<>>
         \/ Len(log) > 1
         \/ \E f \in FileIds : Settled(f) ) => Listed
    /\ (\E k \in Listings : ~log[k].ok) =>
          /\ Len(log) = 1
          /\ reads = <<>>
          /\ writes = <<>>
          /\ disk = preRun
          /\ \A f \in FileIds : ~Settled(f)
          /\ pc \in {"catch", "done"}
          /\ pc = "done" => ret = "false"

\* the listing failed with two declared files, one encrypted: the run has
\* returned failure and touched nothing
C15_Witness ==
    /\ pc = "done"
    /\ ret = "false"
    /\ \E k \in Listings : ~log[k].ok
    /\ Len(files) = 2
    /\ \E f \in FileIds : Encrypted(f)
    /\ disk = preRun

\* the decryption of file f failed: an encrypted definition was read and
\* its callback ended without the decrypted content having been stored
DecryptFailed(f) ==
    /\ Settled(f)
    /\ f \in FilesRead
    /\ Encrypted(f)
    /\ ~WasDecrypted(f)

\* C16: when the decryption of an encrypted definition fails, that secret
\* is reported failed, its file is still exactly what it was (nothing was
\* written to it), no command was issued for it, and the callbacks of the
\* other declared files still run: when the run has returned each of them
\* has settled, successfully unless it threw itself.
C16_FailedDecryptLeavesFile ==
    \A f \in FileIds : DecryptFailed(f) =>
        /\ secretsCreated[f] = "rejected"
        /\ disk[f] = preRun[f]
        /\ f \notin FilesWritten
        /\ \A k \in 1..Len(log) : log[k].file # f
        /\ pc = "done" =>
              \A g \in FileIds \ {f} :
                  /\ Settled(g)
                  /\ ~Skipped(g) => g \in FilesRead
                  /\ ~Threw(g) => secretsCreated[g] = "true"

\* the decryption of the first file failed and left it encrypted and
\* unwritten; the second file was then decrypted, got its commands and is
\* reported successful
C16_Witness ==
    /\ pc = "done"
    /\ \E f, g \in FileIds :
        /\ f < g
        /\ DecryptFailed(f)
        /\ DeclaresLabels(f)
        /\ disk[f].status = "encrypted"
        /\ secretsCreated[f] = "rejected"
        /\ WasDecrypted(g)
        /\ Issued(g, {"create", "addVersion"}) # {}
        /\ secretsCreated[g] = "true"

\* the labels and the accessor members of the remote secret of file f
RemoteLabels(f) ==
    { Lbl(remote[NameOf(f)].labels[k].key, remote[NameOf(f)].labels[k].value) :
        k \in 1..Len(remote[NameOf(f)].labels) }

RemoteAccessors(f) ==
    { AccessorMembers(remote[NameOf(f)].policy)[k] :
        k \in 1..Len(AccessorMembers(remote[NameOf(f)].policy)) }

\* the remote secret of file f is what the file declares
MatchesDeclared(f) ==
    /\ remote[NameOf(f)].exists
    /\ RemoteLabels(f) = DeclaredLabels(f)
    /\ DeclaresAccounts(f) => RemoteAccessors(f) = DeclaredAccounts(f)

\* no command of the run was rejected
AllCallsSucceeded == \A k \in 1..Len(log) : log[k].ok

\* C17: after a run in which every remote call succeeded, every reconciled
\* secret exists remotely with exactly the declared labels and, when
\* serviceAccounts is declared, exactly the declared accessor members.
C17_RemoteMatchesDeclared ==
    (pc = "done" /\ AllCallsSucceeded) =>
        \A f \in FileIds :
            (~Skipped(f) /\ secretsCreated[f] = "true") => MatchesDeclared(f)

BindingOps == {"getIamPolicy", "grant", "revoke"}

\* C18: a definition whose metadata has no serviceAccounts, absent or not an
\* array, leaves the access bindings alone: its callback issues no policy
\* read, no grant and no revoke, whatever the remote bindings are; and a
\* secret none of whose definitions declares serviceAccounts gets none of
\* these commands at all.
C18_NoAccountsNoBindingCommands ==
    \A f \in FileIds : ~DeclaresAccounts(f) =>
        /\ Issued(f, BindingOps) = {}
        /\ (\A g \in FileIds : NameOf(g) = NameOf(f) => ~DeclaresAccounts(g))
              => \A k \in 1..Len(log) :
                    log[k].op \in BindingOps => log[k].secret # NameOf(f)

\* a definition whose serviceAccounts is not an array was reconciled
\* successfully against a secret whose accessor role has the members
\* Y and Z, which it still has
C18_Witness ==
    /\ pc = "done"
    /\ \E f \in FileIds :
        /\ preRun[f].serviceAccounts = NotArray
        /\ secretsCreated[f] = "true"
        /\ Issued(f, {"addVersion"}) # {}
        /\ RemoteAccessors(f) = {"Y", "Z"}

\* C19: distinct declared files have distinct secret names, so no two
\* callbacks of a run issue commands (create, addVersion, updateLabels,
\* retireVersion, grant, revoke) against the same remote secret.
C19_UnitsOwnDistinctNames ==
    \A j, k \in Mutations :
        log[j].secret = log[k].secret => log[j].file = log[k].file

\* everything the callback of file f has done so far: the reads and the
\* writes of its file and its commands
EventsOf(f) ==
    << {k \in 1..Len(reads) : reads[k] = f},
       {k \in 1..Len(writes) : writes[k].file = f},
       Issued(f, UnitOps) >>

Begun(f) == EventsOf(f) # << {}, {}, {} >> \/ Settled(f) \/ i = f

\* the reads, the writes and the commands each follow the listing order
InListingOrder ==
    /\ \A j, k \in 1..Len(reads) : j < k => reads[j] <= reads[k]
    /\ \A j, k \in 1..Len(writes) : j < k => writes[j].file <= writes[k].file
    /\ \A j, k \in 1..Len(log) : j < k => log[j].file <= log[k].file

\* a callback acts only while it is the running one, and the callback of a
\* later file has not begun before the earlier ones have settled
OneUnitAtATime ==
    /\ \A f \in FileIds :
          EventsOf(f) # << {}, {}, {} >> => (i = f \/ Settled(f))
    /\ \A f, g \in FileIds : (f < g /\ Begun(g)) => Settled(f)
    /\ \A f \in FileIds : i = f => ~Settled(f)

\* C20: the callbacks never interleave: every read, write and command of
\* the file at position f of the listing is done, or its callback has
\* thrown, before the callback of the file at position f + 1 begins, and a
\* settled callback does nothing more; hence the commands of a run follow
\* the listing order of the files.
C20_UnitsNeverInterleave ==
    /\ [](InListingOrder /\ OneUnitAtATime)
    /\ [][\A f \in FileIds : Settled(f) => EventsOf(f)' = EventsOf(f)]_vars

\* two files were reconciled, each was decrypted, got commands and was
\* re-encrypted, and all of the first one's precede the second one's
C20_Witness ==
    /\ pc = "done"
    /\ Len(files) = 2
    /\ \A f \in FileIds :
          /\ WasDecrypted(f)
          /\ Issued(f, {"create", "addVersion"}) # {}
          /\ Issued(f, {"grant", "revoke"}) # {}
          /\ secretsCreated[f] = "true"
    /\ \A j \in Issued(1, UnitOps), k \in Issued(2, UnitOps) : j < k

====
